---- MODULE Spec2Model ----
(***************************************************************************)
(* A model of python/send_flat.py: the tone generator flat_tone with its   *)
(* module-level sample counter `clock`, and the publisher                  *)
(* connect_and_send around it.                                             *)
(*                                                                         *)
(* Three families of behaviours are specified over the same variables:     *)
(*   ToneSpec  one or two threads each making one call of flat_tone, at    *)
(*             the grain of the reads and writes of `clock`;               *)
(*   SendSpec  one thread running connect_and_send (the script as          *)
(*             written); FairSend adds the scheduling fairness;            *)
(*   TwoSpec   two threads of one process running connect_and_send for     *)
(*             channel 0 and channel 1.                                    *)
(***************************************************************************)
EXTENDS Integers, Sequences, FiniteSets, TLC

VARIABLES
    clock,        \* the module-level sample counter (line 10)
    clock0,       \* the value of clock when the calls started (observation)
    now,          \* wall-clock time in seconds, an exact rational <<num, den>>
    active,       \* the threads that run
    pc,           \* pc[t]: where thread t stands
    frequency,    \* frequency[t]: argument of flat_tone / connect_and_send
    sample_rate,  \* sample_rate[t]: argument of flat_tone
    n_samples,    \* n_samples[t]: argument of flat_tone
    loaded,       \* loaded[t]: the value of clock read on line 16, not yet stored
    floats,       \* floats[t]: the list built on line 19, in generation order
    ret,          \* ret[t]: the bytes flat_tone returned
    channel,      \* channel[t]: argument of connect_and_send
    duration,     \* duration[t]: argument of connect_and_send (rational seconds)
    sock,         \* sock[t]: the address thread t's socket is bound to, <<>> if none
    wake,         \* wake[t]: the time the sleep of thread t is over
    t_start,      \* t_start[t]: line 33
    elapsed,      \* elapsed[t]: time.time() - t_start as computed on line 37
    wire,         \* wire[a]: the messages published on endpoint a, in order
    log           \* log[t]: the calls thread t has made, in order (observation)

vars == <<clock, clock0, now, active, pc, frequency, sample_rate, n_samples,
          loaded, floats, ret, channel, duration, sock, wake, t_start,
          elapsed, wire, log>>

toneVars == <<frequency, sample_rate, n_samples, clock0, active>>
sendVars == <<channel, duration, sock, wake, t_start, elapsed, wire, log, now>>

(***************************************************************************)
(* Bounds of the model.                                                    *)
(***************************************************************************)
MaxFrequency == 2
MaxRate == 2
MaxSamples == 2
MaxClock0 == 1
MaxOvershootMs == 1
MaxDurationSleeps == 1

(***************************************************************************)
(* Program constants.                                                      *)
(***************************************************************************)
DefaultSampleRate == 48000
DefaultNSamples == 2048
DefaultFrequency == 440

Threads == {1, 2}

(***************************************************************************)
(* Exact rationals <<num, den>>, den > 0, in lowest terms.                 *)
(***************************************************************************)
Abs(x) == IF x < 0 THEN -x ELSE x

RECURSIVE Gcd(_, _)
Gcd(a, b) == IF b = 0 THEN a ELSE Gcd(b, a % b)

Rat(n, d) ==
    LET s == IF d < 0 THEN -1 ELSE 1
        g == Gcd(Abs(n), Abs(d))
    IN  <<(s * n) \div g, (s * d) \div g>>

Lcm(a, b) == (a \div Gcd(a, b)) * b

RatAdd(x, y) ==
    LET l == Lcm(x[2], y[2])
    IN  Rat(x[1] * (l \div x[2]) + y[1] * (l \div y[2]), l)

RatSub(x, y) == RatAdd(x, <<-y[1], y[2]>>)

RatDiv(x, y) == Rat(x[1] * y[2], x[2] * y[1])

RatScale(k, x) == Rat(k * x[1], x[2])

\* x > y
RatGreater(x, y) == RatSub(x, y)[1] > 0

Millis(k) == Rat(k, 1000)

(***************************************************************************)
(* Python's integer %: the result takes the sign of the divisor.  A zero   *)
(* divisor raises ZeroDivisionError and is handled by the callers.         *)
(***************************************************************************)
CMod(a, b) == IF a >= 0 THEN a % Abs(b) ELSE -((-a) % Abs(b))

PyMod(a, b) == IF b > 0 THEN a % b ELSE -((-a) % (-b))

(***************************************************************************)
(* Line 16, right-hand side: clock + 1 % sample_rate, which Python reads   *)
(* as clock + (1 % sample_rate).                                           *)
(***************************************************************************)
IncrementedWrap(c, r) == PyMod(c + 1, r)

Incremented(c, r) == c + PyMod(1, r)

(***************************************************************************)
(* Line 17: math.sin((clock * frequency * 2.0 * math.pi) / sample_rate).   *)
(* The double it yields is kept symbolic: the value is named by the        *)
(* counter, the frequency and the rate it is computed from.  Frequencies   *)
(* are small positive numbers, for which the product is a finite double    *)
(* (math.sin raises ValueError on an infinite argument).                   *)
(***************************************************************************)
SinVal(c, f, r) == [clock |-> c, frequency |-> f, sample_rate |-> r]

(***************************************************************************)
(* Line 21: struct.pack(">f", v): the 4 bytes of v as an IEEE-754 single,  *)
(* most significant byte (index 0) first; b"".join concatenates the packed *)
(* values in list order.                                                   *)
(***************************************************************************)
Byte(k, v) == [byte |-> k, of |-> v]

\* struct.pack(">d", v)
PackDouble(v) == <<Byte(0, v), Byte(1, v), Byte(2, v), Byte(3, v),
                   Byte(4, v), Byte(5, v), Byte(6, v), Byte(7, v)>>

Pack(v) == <<Byte(0, v), Byte(1, v), Byte(2, v), Byte(3, v)>>

\* b"".join(parts[lo..hi]); the middle index is bound as a value (m \in {...})
\* so that it is computed once
RECURSIVE Join(_, _, _)
Join(parts, lo, hi) ==
    IF lo > hi THEN <<>>
    ELSE IF lo = hi THEN parts[lo]
    ELSE CHOOSE s \in {Join(parts, lo, m) \o Join(parts, m + 1, hi) :
                          m \in {(lo + hi) \div 2}} : TRUE

Packed(vs) == Join([i \in 1..Len(vs) |-> Pack(vs[i])], 1, Len(vs))

(***************************************************************************)
(* flat_tone run without interruption from counter value c: the list of    *)
(* next_value() results and the counter it leaves.  The run of n calls is  *)
(* the run of the first n \div 2 followed by the run of the rest.          *)
(***************************************************************************)
NextValuePost(c, f, r) ==
    [clock |-> Incremented(c, r), floats |-> <<SinVal(c, f, r)>>]

NextValue(c, f, r) ==
    LET c2 == Incremented(c, r)
    IN  [clock |-> c2, floats |-> <<SinVal(c2, f, r)>>]

\* The size of the first half and the two halves are bound as values
\* (h \in {...}) so that each is computed once, the second half from the
\* counter the first has left.
RECURSIVE Generate(_, _, _, _)
Generate(c, f, r, n) ==
    IF n <= 0 THEN [clock |-> c, floats |-> <<>>]
    ELSE IF n = 1 THEN NextValue(c, f, r)
    ELSE CHOOSE g \in UNION { UNION {
             {[clock |-> b.clock, floats |-> a.floats \o b.floats] :
                 b \in {Generate(a.clock, f, r, n - h)}} :
             a \in {Generate(c, f, r, h)}} :
             h \in {n \div 2}} : TRUE

FlatTone(c, f, r, n) ==
    IF n > 0 /\ r = 0
    THEN [fault |-> TRUE, clock |-> c, packed |-> <<>>]
    ELSE CHOOSE x \in {[fault |-> FALSE, clock |-> g.clock, packed |-> Packed(g.floats)] :
                          g \in {Generate(c, f, r, n)}} : TRUE

(***************************************************************************)
(* flat_tone, one call per thread, at the grain of the accesses to clock:   *)
(* the interpreter may switch threads between the read of the global on    *)
(* line 16, its assignment, and the read on line 17.                       *)
(***************************************************************************)
\* line 19: the list comprehension starts; range(n_samples) is empty for n <= 0
Call(t) ==
    /\ pc[t] = "call"
    /\ pc' = [pc EXCEPT ![t] = IF n_samples[t] > 0 THEN "load" ELSE "pack"]
    /\ UNCHANGED <<clock, loaded, floats, ret, toneVars, sendVars>>

\* line 16, operands: clock is read, then 1 % sample_rate is evaluated
Load(t) ==
    /\ pc[t] = "load"
    /\ IF sample_rate[t] = 0
       THEN /\ pc' = [pc EXCEPT ![t] = "fault"]
            /\ UNCHANGED loaded
       ELSE /\ pc' = [pc EXCEPT ![t] = "store"]
            /\ loaded' = [loaded EXCEPT ![t] = clock]
    /\ UNCHANGED <<clock, floats, ret, toneVars, sendVars>>

\* line 16, assignment: the sum is stored into the global
Store(t) ==
    /\ pc[t] = "store"
    /\ clock' = Incremented(loaded[t], sample_rate[t])
    /\ pc' = [pc EXCEPT ![t] = "sin"]
    /\ UNCHANGED <<loaded, floats, ret, toneVars, sendVars>>

\* lines 17-19: the sample is computed from the global as it is now and appended
Sin(t) ==
    /\ pc[t] = "sin"
    /\ floats' = [floats EXCEPT
                    ![t] = Append(@, SinVal(clock, frequency[t], sample_rate[t]))]
    /\ pc' = [pc EXCEPT
                ![t] = IF Len(floats[t]) + 1 < n_samples[t] THEN "load" ELSE "pack"]
    /\ UNCHANGED <<clock, loaded, ret, toneVars, sendVars>>

\* lines 21-22
PackAndReturn(t) ==
    /\ pc[t] = "pack"
    /\ ret' = [ret EXCEPT ![t] = Packed(floats[t])]
    /\ pc' = [pc EXCEPT ![t] = "returned"]
    /\ UNCHANGED <<clock, loaded, floats, toneVars, sendVars>>

Rates == (-MaxRate .. MaxRate) \cup {DefaultSampleRate}

None == <<>>
Zero == <<0, 1>>

\* One thread, or two threads making the same call, from any counter value.
ToneInit ==
    /\ clock \in 0..MaxClock0
    /\ clock0 = clock
    /\ now = Zero
    /\ active \in {{1}, {1, 2}}
    /\ pc = [t \in Threads |-> IF t \in active THEN "call" ELSE "idle"]
    /\ \E f \in 1..MaxFrequency : frequency = [t \in Threads |-> f]
    /\ \E r \in Rates : sample_rate = [t \in Threads |-> r]
    /\ \E n \in 0..MaxSamples : n_samples = [t \in Threads |-> n]
    /\ loaded = [t \in Threads |-> 0]
    /\ floats = [t \in Threads |-> <<>>]
    /\ ret = [t \in Threads |-> None]
    /\ channel = [t \in Threads |-> 0]
    /\ duration = [t \in Threads |-> Zero]
    /\ sock = [t \in Threads |-> None]
    /\ wake = [t \in Threads |-> Zero]
    /\ t_start = [t \in Threads |-> Zero]
    /\ elapsed = [t \in Threads |-> Zero]
    /\ wire = <<>>
    /\ log = [t \in Threads |-> <<>>]

ToneNext ==
    \/ \E t \in active : Call(t)
    \/ \E t \in active : Load(t)
    \/ \E t \in active : Store(t)
    \/ \E t \in active : Sin(t)
    \/ \E t \in active : PackAndReturn(t)

ToneSpec == ToneInit /\ [][ToneNext]_vars

(***************************************************************************)
(* connect_and_send.                                                       *)
(***************************************************************************)
Digit(d) == <<"0", "1", "2", "3", "4", "5", "6", "7", "8", "9">>[d + 1]

RECURSIVE DigitsOf(_)
DigitsOf(n) == IF n < 10 THEN <<Digit(n)>> ELSE Append(DigitsOf(n \div 10), Digit(n % 10))

\* "%d" % n
FormatD(n) == IF n < 0 THEN <<"-">> \o DigitsOf(-n) ELSE DigitsOf(n)

\* line 29: "ipc:///tmp/.psynth.%d" % channel
Address(ch) == <<"ipc:///tmp/.psynth.">> \o FormatD(ch)

\* line 32: the warm-up sleep, 0.25 s
WarmUpInterval == Rat(25, 100)

\* line 36: 1 / (48000 / 2048 + 10)
SleepIntervalMargin == RatDiv(Rat(2048, 1), RatAdd(Rat(48000, 1), Rat(10, 1)))

SleepInterval ==
    RatDiv(Rat(1, 1), RatAdd(RatDiv(Rat(48000, 1), Rat(2048, 1)), Rat(10, 1)))

Logged(t, entry) == log' = [log EXCEPT ![t] = Append(@, entry)]

\* lines 26-28: the print, the context and the PUB socket
Open(t) ==
    /\ pc[t] = "start"
    /\ pc' = [pc EXCEPT ![t] = "bind"]
    /\ Logged(t, <<"print">>)
    /\ UNCHANGED <<clock, loaded, floats, ret, toneVars, channel, duration, sock,
                   wake, t_start, elapsed, wire, now>>

\* line 29: bind raises (the address is taken, or any other ZMQError) or binds
BindFails(t) ==
    /\ pc[t] = "bind"
    /\ pc' = [pc EXCEPT ![t] = "fault"]
    /\ UNCHANGED <<clock, loaded, floats, ret, toneVars, sendVars>>

BindThenLoop(t) ==
    /\ pc[t] = "bind"
    /\ Address(channel[t]) \notin DOMAIN wire
    /\ sock' = [sock EXCEPT ![t] = Address(channel[t])]
    /\ wire' = wire @@ (Address(channel[t]) :> <<>>)
    /\ t_start' = [t_start EXCEPT ![t] = now]
    /\ pc' = [pc EXCEPT ![t] = "flat_tone"]
    /\ Logged(t, <<"bind", Address(channel[t])>>)
    /\ UNCHANGED <<clock, loaded, floats, ret, toneVars, channel, duration,
                   wake, elapsed, now>>

Bind(t) ==
    /\ pc[t] = "bind"
    /\ Address(channel[t]) \notin DOMAIN wire
    /\ sock' = [sock EXCEPT ![t] = Address(channel[t])]
    /\ wire' = wire @@ (Address(channel[t]) :> <<>>)
    /\ pc' = [pc EXCEPT ![t] = "warmup"]
    /\ Logged(t, <<"bind", Address(channel[t])>>)
    /\ UNCHANGED <<clock, loaded, floats, ret, toneVars, channel, duration,
                   wake, t_start, elapsed, now>>

\* line 32: time.sleep(0.25) is entered
WarmUp(t) ==
    /\ pc[t] = "warmup"
    /\ wake' = [wake EXCEPT ![t] = RatAdd(now, WarmUpInterval)]
    /\ pc' = [pc EXCEPT ![t] = "warming"]
    /\ Logged(t, <<"sleep", WarmUpInterval>>)
    /\ UNCHANGED <<clock, loaded, floats, ret, toneVars, channel, duration, sock,
                   t_start, elapsed, wire, now>>

TimeIsUp(t) == ~RatGreater(wake[t], now)

WarmedUpCheckFirst(t) ==
    /\ pc[t] = "warming"
    /\ TimeIsUp(t)
    /\ t_start' = [t_start EXCEPT ![t] = now]
    /\ pc' = [pc EXCEPT
                ![t] = IF RatGreater(Zero, duration[t]) THEN "done" ELSE "flat_tone"]
    /\ Logged(t, <<"time">>)
    /\ UNCHANGED <<clock, loaded, floats, ret, toneVars, channel, duration, sock,
                   wake, elapsed, wire, now>>

\* lines 32-33: the sleep returns, not before its time, and t_start is read
WarmedUp(t) ==
    /\ pc[t] = "warming"
    /\ TimeIsUp(t)
    /\ t_start' = [t_start EXCEPT ![t] = now]
    /\ pc' = [pc EXCEPT ![t] = "flat_tone"]
    /\ Logged(t, <<"time">>)
    /\ UNCHANGED <<clock, loaded, floats, ret, toneVars, channel, duration, sock,
                   wake, elapsed, wire, now>>

\* line 35, the argument: flat_tone(frequency) with the defaults of line 13
CallFlatTone(t) ==
    /\ pc[t] = "flat_tone"
    /\ \E r \in {FlatTone(clock, frequency[t], DefaultSampleRate, DefaultNSamples)} :
           /\ clock' = r.clock
           /\ ret' = [ret EXCEPT ![t] = r.packed]
           /\ pc' = [pc EXCEPT ![t] = IF r.fault THEN "fault" ELSE "send"]
    /\ Logged(t, <<"flat_tone">>)
    /\ UNCHANGED <<loaded, floats, toneVars, channel, duration, sock, wake,
                   t_start, elapsed, wire, now>>

\* line 35: socket.send raises
SendFails(t) ==
    /\ pc[t] = "send"
    /\ pc' = [pc EXCEPT ![t] = "fault"]
    /\ UNCHANGED <<clock, loaded, floats, ret, toneVars, sendVars>>

\* line 35: socket.send publishes the buffer on the socket's endpoint; the
\* bytes object, a temporary, is gone after the call
Send(t) ==
    /\ pc[t] = "send"
    /\ wire' = [wire EXCEPT ![sock[t]] = Append(@, [data |-> ret[t], by |-> t])]
    /\ ret' = [ret EXCEPT ![t] = None]
    /\ pc' = [pc EXCEPT ![t] = "sleep"]
    /\ Logged(t, <<"send">>)
    /\ UNCHANGED <<clock, loaded, floats, toneVars, channel, duration, sock,
                   wake, t_start, elapsed, now>>

\* line 36: time.sleep(1 / (48000 / 2048 + 10)) is entered
LoopSleep(t) ==
    /\ pc[t] = "sleep"
    /\ wake' = [wake EXCEPT ![t] = RatAdd(now, SleepInterval)]
    /\ pc' = [pc EXCEPT ![t] = "sleeping"]
    /\ Logged(t, <<"sleep", SleepInterval>>)
    /\ UNCHANGED <<clock, loaded, floats, ret, toneVars, channel, duration, sock,
                   t_start, elapsed, wire, now>>

CheckAtLeast(t) ==
    /\ pc[t] = "sleeping"
    /\ TimeIsUp(t)
    /\ elapsed' = [elapsed EXCEPT ![t] = RatSub(now, t_start[t])]
    /\ pc' = [pc EXCEPT
                ![t] = IF ~RatGreater(duration[t], elapsed'[t])
                       THEN "done" ELSE "flat_tone"]
    /\ Logged(t, <<"check">>)
    /\ UNCHANGED <<clock, loaded, floats, ret, toneVars, channel, duration, sock,
                   wake, t_start, wire, now>>

\* lines 36-38: the sleep returns, not before its time, and the test is made
Check(t) ==
    /\ pc[t] = "sleeping"
    /\ TimeIsUp(t)
    /\ elapsed' = [elapsed EXCEPT ![t] = RatSub(now, t_start[t])]
    /\ pc' = [pc EXCEPT
                ![t] = IF RatGreater(elapsed'[t], duration[t])
                       THEN "done" ELSE "flat_tone"]
    /\ Logged(t, <<"check">>)
    /\ UNCHANGED <<clock, loaded, floats, ret, toneVars, channel, duration, sock,
                   wake, t_start, wire, now>>

\* Wall-clock time passes while a thread sleeps: to the end of a sleep, or
\* past it (time.sleep never returns early, and may return late).
Advance ==
    /\ \E t \in active :
         /\ pc[t] \in {"warming", "sleeping"}
         /\ RatGreater(wake[t], now)
         /\ \E k \in 0..MaxOvershootMs : now' = RatAdd(wake[t], Millis(k))
    /\ UNCHANGED <<clock, loaded, floats, ret, pc, toneVars, channel, duration,
                   sock, wake, t_start, elapsed, wire, log>>

SendNext ==
    \/ \E t \in active : Open(t)
    \/ \E t \in active : BindFails(t)
    \/ \E t \in active : Bind(t)
    \/ \E t \in active : WarmUp(t)
    \/ \E t \in active : WarmedUp(t)
    \/ \E t \in active : CallFlatTone(t)
    \/ \E t \in active : SendFails(t)
    \/ \E t \in active : Send(t)
    \/ \E t \in active : LoopSleep(t)
    \/ \E t \in active : Check(t)
    \/ Advance

Durations == {RatScale(k, SleepInterval) : k \in -1..MaxDurationSleeps}

\* The state after the module is loaded (clock = 0) and connect_and_send is
\* entered by the threads of `who` with the channels `chan`.
Entered(who, chan, freqs, durs) ==
    /\ clock = 0
    /\ clock0 = 0
    /\ now = Zero
    /\ active = who
    /\ pc = [t \in Threads |-> IF t \in who THEN "start" ELSE "idle"]
    /\ \E f \in freqs : frequency = [t \in Threads |-> f]
    /\ sample_rate = [t \in Threads |-> DefaultSampleRate]
    /\ n_samples = [t \in Threads |-> DefaultNSamples]
    /\ loaded = [t \in Threads |-> 0]
    /\ floats = [t \in Threads |-> <<>>]
    /\ ret = [t \in Threads |-> None]
    /\ channel = chan
    /\ \E d \in durs : duration = [t \in Threads |-> d]
    /\ sock = [t \in Threads |-> None]
    /\ wake = [t \in Threads |-> Zero]
    /\ t_start = [t \in Threads |-> Zero]
    /\ elapsed = [t \in Threads |-> Zero]
    /\ wire = <<>>
    /\ log = [t \in Threads |-> <<>>]

\* lines 41-47: the script as written, one call of connect_and_send
SendInit ==
    \E c \in {0, 1} :
        Entered({1}, [t \in Threads |-> c], {1, DefaultFrequency}, Durations)

SendSpec == SendInit /\ [][SendNext]_vars

\* The thread is scheduled and time does not stand still: a step that can
\* be taken (the thread's next statement, or the passing of time while it
\* sleeps) is taken.
FairSend == SendSpec /\ WF_vars(SendNext)

\* Two threads of one process, channel 0 and channel 1, each asked for a
\* negative duration (one pass through the loop).
TwoInit ==
    Entered({1, 2}, [t \in Threads |-> t - 1], {1, DefaultFrequency},
            {RatScale(-1, SleepInterval)})

TwoSpec == TwoInit /\ [][SendNext]_vars

(***************************************************************************)
(* The claims.                                                             *)
(***************************************************************************)
Sole == active = {1}

\* The samples thread t has under way: those in its list, and the one whose
\* counter value is stored but whose sine is not yet appended.
Started(t) == Len(floats[t]) + (IF pc[t] = "sin" THEN 1 ELSE 0)

C2_CounterAdvancesByOne ==
    (Sole /\ sample_rate[1] >= 1) =>
        /\ clock = clock0 + Started(1)
        /\ \A i \in 1..Len(floats[1]) : floats[1][i].clock = clock0 + i

\* C6 (as claimed): a single-threaded call with sample_rate <= 0 and
\* n_samples >= 1 never gets past line 16: it returns nothing and leaves the
\* counter at its starting value.
C6_NonPositiveRateFaults ==
    (Sole /\ sample_rate[1] <= 0 /\ n_samples[1] >= 1) =>
        /\ pc[1] \in {"call", "load", "fault"}
        /\ ret[1] = None
        /\ clock = clock0

\* C6 (amended): with sample_rate = 0 and n_samples >= 1 the call never gets
\* past line 16 (ZeroDivisionError), returns nothing and leaves the counter at
\* its starting value; with sample_rate < 0 it never faults, and returns
\* 4 * n_samples bytes with the counter moved by n_samples * (sample_rate + 1).
C6_ZeroRateFaults ==
    (Sole /\ n_samples[1] >= 1) =>
        /\ sample_rate[1] = 0 =>
             /\ pc[1] \in {"call", "load", "fault"}
             /\ ret[1] = None
             /\ clock = clock0
        /\ sample_rate[1] < 0 =>
             /\ pc[1] # "fault"
             /\ pc[1] = "returned" =>
                  /\ Len(ret[1]) = 4 * n_samples[1]
                  /\ clock = clock0 + n_samples[1] * (sample_rate[1] + 1)

C6_Witness ==
    /\ Sole
    /\ sample_rate[1] = 0
    /\ n_samples[1] >= 1
    /\ pc[1] = "fault"
    /\ clock = clock0

\* C8: when flat_tone is called from one thread only, with a rate for which
\* the increment is 1 (sample_rate >= 2, as the default 48000), no update is
\* lost: the counter is its starting value plus the samples under way, and no
\* two samples are computed from the same counter value.  With two threads
\* the lost update is reachable (C8_LostUpdate).
C8_NoLostUpdateSingleThread ==
    (Sole /\ sample_rate[1] >= 2) =>
        /\ clock = clock0 + Started(1)
        /\ \A i, j \in 1..Len(floats[1]) :
               i # j => floats[1][i].clock # floats[1][j].clock

C8_LostUpdate ==
    /\ active = {1, 2}
    /\ \A t \in active : pc[t] = "returned" /\ sample_rate[t] = DefaultSampleRate
    /\ clock < clock0 + Len(floats[1]) + Len(floats[2])
    /\ \E i \in 1..Len(floats[1]) : \E j \in 1..Len(floats[2]) :
           floats[1][i].clock = floats[2][j].clock

\* The calls of connect_and_send in program order: position i of the log.
Pattern(i) ==
    IF i <= 4 THEN <<"print", "bind", "sleep", "time">>[i]
    ELSE <<"flat_tone", "send", "sleep", "check">>[((i - 5) % 4) + 1]

Count(l, name) == Cardinality({i \in 1..Len(l) : l[i][1] = name})

Published(t) == IF sock[t] = None THEN <<>> ELSE wire[sock[t]]

\* C3: in every run of connect_and_send the calls come in the order bind,
\* sleep(0.25), then per iteration flat_tone, send, sleep, check; every buffer
\* on the wire was sent after the bind succeeded and after a quarter of a
\* second or more had passed in the warm-up sleep.
C3_Order ==
    \A t \in active :
        /\ \A i \in 1..Len(log[t]) : log[t][i][1] = Pattern(i)
        /\ Len(log[t]) >= 3 => log[t][3] = <<"sleep", <<1, 4>>>>
        /\ Len(Published(t)) = Count(log[t], "send")
        /\ Len(Published(t)) > 0 =>
             /\ sock[t] = Address(channel[t])
             /\ Count(log[t], "bind") = 1
             /\ ~RatGreater(<<1, 4>>, t_start[t])

C3_Witness ==
    /\ pc[1] = "done"
    /\ Len(Published(1)) >= 2
    /\ Len(log[1]) = 12

\* C5: the end-of-iteration test leaves the loop exactly when the time since
\* t_start is strictly greater than duration, and goes round again otherwise;
\* and, the thread being scheduled and time passing, a loop once entered is
\* left (by the break, or by a fault of send).
C5_StopsOnDuration ==
    /\ [][\A t \in Threads :
             (pc[t] = "sleeping" /\ pc'[t] # "sleeping") =>
                 /\ elapsed'[t] = RatSub(now, t_start[t])
                 /\ pc'[t] = "done" <=> RatGreater(RatSub(now, t_start[t]), duration[t])
                 /\ pc'[t] # "done" => pc'[t] = "flat_tone"]_vars
    /\ \A t \in Threads : (pc[t] = "flat_tone") ~> (pc[t] \in {"done", "fault"})

C5_Witness ==
    /\ pc[1] = "flat_tone"
    /\ Count(log[1], "check") = 1
    /\ elapsed[1] = duration[1]

\* C7 (as claimed): every sleep of the loop is asked for 2048 / (48000 + 10)
\* seconds.
C7_SleepIsSamplesOverRatePlusMargin ==
    \A t \in active : \A i \in 5..Len(log[t]) :
        log[t][i][1] = "sleep" => log[t][i][2] = Rat(2048, 48000 + 10)

\* C7 (amended): every sleep of the loop is asked for
\* 2048 / (48000 + 10 * 2048) = 16/535 seconds, the 10 being added to the
\* number of buffers per second, and the sleep is over no earlier than that.
C7_SleepInterval ==
    \A t \in active :
        /\ \A i \in 5..Len(log[t]) :
               log[t][i][1] = "sleep" => log[t][i][2] = Rat(2048, 48000 + 10 * 2048)
        /\ Count(log[t], "check") >= 1 =>
               ~RatGreater(Rat(2048, 48000 + 10 * 2048), elapsed[t])

C7_Witness ==
    /\ pc[1] = "sleeping"
    /\ Len(log[1]) = 7
    /\ wake[1] = RatAdd(t_start[1], <<16, 535>>)

\* C9: in a single-threaded run of connect_and_send the counter starts at 0
\* and is never reset: it is 2048 times the number of buffers generated, and
\* the k-th published buffer is the 4 bytes each of the samples computed from
\* the counter values (k-1)*2048 + 1 .. k*2048, in increasing order.
C9_PhaseContinuous ==
    \A t \in active :
        /\ clock = 2048 * Count(log[t], "flat_tone")
        /\ \A k \in 1..Len(Published(t)) :
               Published(t)[k].data
                   = Packed([j \in 1..2048 |->
                               SinVal((k - 1) * 2048 + j, frequency[t], 48000)])

C9_Witness ==
    /\ Len(Published(1)) >= 2
    /\ Published(1)[1].data[1].of.clock = 1
    /\ Published(1)[2].data[1].of.clock = 2049

\* C10: a run of connect_and_send that has left the loop by the break has
\* published at least one buffer, whatever the duration.
C10_AtLeastOneBuffer ==
    \A t \in active : pc[t] = "done" => Len(Published(t)) >= 1

C10_Witness ==
    /\ pc[1] = "done"
    /\ RatGreater(Zero, duration[1])
    /\ Len(Published(1)) = 1

\* The k-th buffer connect_and_send publishes when it runs alone.
SoloBuffer(f, k) ==
    FlatTone((k - 1) * DefaultNSamples, f, DefaultSampleRate, DefaultNSamples).packed

\* C4 (as claimed): channel 0 and channel 1 have distinct endpoints, every
\* buffer is on the endpoint of the instance that generated it, and the
\* stream on each endpoint is the one the instance publishes when it runs
\* alone, however the two instances interleave.
C4_IndependentStreams ==
    /\ Address(0) # Address(1)
    /\ \A t \in active :
           /\ sock[t] # None => sock[t] = Address(channel[t])
           /\ \A k \in 1..Len(Published(t)) :
                  /\ Published(t)[k].by = t
                  /\ Published(t)[k].data = SoloBuffer(frequency[t], k)

====
